---------------------------- MODULE Spec2Model ----------------------------
(***************************************************************************)
(* Medication tracker: the stock ledger (number.py, MedicationStockNumber), *)
(* the take_dose / add_stock service handler (__init__.py), the             *)
(* days-remaining estimator (sensor.py, MedicationDaysRemainingSensor) and  *)
(* the configuration wizard and options form (config_flow.py).              *)
(*                                                                         *)
(* Quantities of tablets are kept in HALF tablets: the integer 5 stands     *)
(* for 2.5 tablets, so that Python's int() (truncation toward zero) and     *)
(* the fractional inputs the configuration flow accepts are both visible.   *)
(* daily_consumption is the product of two such numbers and is therefore    *)
(* in QUARTER tablets.  days_remaining is in HUNDREDTHS of a day.           *)
(***************************************************************************)
EXTENDS Integers, Sequences, FiniteSets, TLC

\* ------------------------------------------------------------------ bounds

\* Service calls (take_dose / add_stock / direct set) the model lets happen.
MaxOps == 2
\* Restarts of the host.
MaxRestarts == 1
\* Service-call handlers that may be in flight at the same time.
MaxHandlers == 2
\* The wall clock advances by TickSeconds at a time, up to MaxTime seconds.
TickSeconds == 30
MaxTime == 60
\* Runs of the configuration wizard.
MaxFlows == 2

\* --------------------------------------------------------------- constants

\* number.py: _attr_native_min_value / _attr_native_max_value, in tablets.
native_min_value == 0
native_max_value == 1000
\* sensor.py: the value reported when daily consumption is not positive
\* (9999.0 days), in hundredths of a day.
InfiniteDays == 999900

\* The configured medications, and the one whose entities most of the
\* specifications below let act (the other then stays as constructed).
Meds == {"medA", "medB"}
Studied == {"medA"}
Handlers == 1..MaxHandlers
Flows == 1..MaxFlows

SERVICE_TAKE_DOSE == "take_dose"
SERVICE_ADD_STOCK == "add_stock"

\* ------------------------------------------------------------ pure helpers

Max(a, b) == IF a >= b THEN a ELSE b

\* Python int(x) of a number x given in half tablets: truncation toward zero
\* to a whole number of tablets.
IntOf(x) == IF x >= 0 THEN (x \div 2) * 2 ELSE 0 - (((0 - x) \div 2) * 2)

\* n / d rounded to the nearest integer, ties to even (Python round), d > 0.
RoundDiv(n, d) ==
    LET q == n \div d
        r == n % d
    IN  IF 2 * r < d THEN q
        ELSE IF 2 * r > d THEN q + 1
        ELSE IF q % 2 = 0 THEN q ELSE q + 1

\* A state of the host's state machine, or a restored snapshot: k = "none"
\* is "no state object", "num" a numeric string with value v (half tablets),
\* "unavailable" / "unknown" the host's markers, "text" any other string.
NoState == [k |-> "none", v |-> 0]
NumState(x) == [k |-> "num", v |-> x]
Unavailable == [k |-> "unavailable", v |-> 0]
Unknown == [k |-> "unknown", v |-> 0]
TextState == [k |-> "text", v |-> 0]

\* An argument of a setter: a number, a non-numeric string, or None.
NumArg(x) == [k |-> "num", v |-> x]
TextArg == [k |-> "text", v |-> 0]
NoneArg == [k |-> "none", v |-> 0]

\* The estimator's days_remaining: None, or a number of hundredths of a day.
NoDays == [known |-> FALSE, v |-> 0]
Days(x) == [known |-> TRUE, v |-> x]
\* The estimator's copy of the stock: None, or half tablets.
NoStock == [known |-> FALSE, v |-> 0]
Stock(x) == [known |-> TRUE, v |-> x]

\* The configuration records (entry.data) the wizard can have produced:
\* initial_stock and pills_per_dose / doses_per_day in half tablets,
\* daily_consumption = pills_per_dose * doses_per_day in quarter tablets.
MakeConfig(initial, pills, doses, low) ==
    [initial_stock |-> initial, pills_per_dose |-> pills,
     doses_per_day |-> doses, daily_consumption |-> pills * doses,
     low_stock_days |-> low]

ConfigChoices ==
    { MakeConfig(6, 2, 2, 7),       \* 3 tablets, 1 per dose, once a day
      MakeConfig(5, 3, 4, 7),       \* 2.5 tablets, 1.5 per dose, twice a day
      MakeConfig(2000, 1, 2, 7) }   \* 1000 tablets, 0.5 per dose, once a day

\* Further records the estimator is studied with: 30 tablets at 1 per dose,
\* three times a day, with a threshold of 10 days; 3 tablets with
\* doses_per_day 0, and with pills_per_dose -1 (the wizard accepts both;
\* daily_consumption is then 0, and negative).
EstimatorConfigs ==
    ConfigChoices \cup { MakeConfig(60, 2, 6, 10), MakeConfig(6, 2, 0, 7),
                         MakeConfig(6, 0 - 2, 2, 7) }

\* What two medications are studied together with: the records, the
\* amount added (2 tablets) and the values set (4 tablets, a non-numeric
\* string).
PairConfigs == { MakeConfig(6, 2, 2, 7), MakeConfig(2000, 1, 2, 7) }
PairAmounts == {4}
PairSetValues == {NumArg(8), TextArg}

\* The records the estimator is studied with beside the service handlers.
SyncConfigs == { MakeConfig(5, 3, 4, 7), MakeConfig(2000, 1, 2, 7) }

\* What the options form is submitted with: pills_per_dose, doses_per_day
\* (half units) and low_stock_days.
MakeOptions(pills, doses, low) ==
    [pills_per_dose |-> pills, doses_per_day |-> doses, low_stock_days |-> low]
OptionChoices == { MakeOptions(2, 2, 7), MakeOptions(4, 6, 7),
                   MakeOptions(3, 4, 14) }
\* entry.options before the first options edit: an empty mapping.
NoOptions == [k \in {} |-> 0]
\* config_flow.py line 37: the dictionary the wizard starts from.
NoData == [k \in {} |-> 0]

\* What the wizard's forms are submitted with.  Dosages are in half units:
\* 1 a dose once a day, 1.5 twice a day, 0 a dose, -1 a dose, 1 a dose
\* never.  The threshold form may be submitted without a value.
UserInputs == { [name |-> "Aspirin", initial_stock |-> 6],
                [name |-> "Biotin", initial_stock |-> 5] }
DosageInputs == { [pills_per_dose |-> 2, doses_per_day |-> 2],
                  [pills_per_dose |-> 3, doses_per_day |-> 4],
                  [pills_per_dose |-> 0, doses_per_day |-> 2],
                  [pills_per_dose |-> 0 - 2, doses_per_day |-> 2],
                  [pills_per_dose |-> 2, doses_per_day |-> 0] }
ThresholdInputs == { [k \in {} |-> 0], [low_stock_days |-> 3] }

\* The entity_id argument of a service call: absent, one identifier, or a
\* list of identifiers.  "ghost" is an identifier no entity has.
EntityIds == Meds \cup {"ghost"}
NoTarget == [k |-> "missing", ids |-> <<>>]
OneTarget(e) == [k |-> "id", ids |-> <<e>>]
ListTarget(seq) ==
    [k |-> IF seq = <<>> THEN "empty_list" ELSE "list", ids |-> seq]
TargetChoices ==
    {NoTarget, ListTarget(<<>>)}
        \cup {OneTarget(e) : e \in Studied \cup {"ghost"}}
        \cup {ListTarget(<<m, "ghost">>) : m \in Studied}

\* The amounts add_stock is called with (half tablets): -1, 0, 0.5, 1.5, 2.
AddAmounts == {0 - 2, 0, 1, 3, 4}
\* The values the ledger is set to directly: numbers (-1, 1.5, 4 tablets),
\* a non-numeric string, None.
SetValues == {NumArg(0 - 2), NumArg(3), NumArg(8), TextArg, NoneArg}
\* What a restart can leave as the ledger's snapshot besides its last state.
BadSnapshots == {NoState, Unavailable, Unknown, TextState}


\* ------------------------------------------- the code's pure computations

\* RestoredStock with zero, not initial_stock, as the fallback.
RestoredStockOrZero(last_state, initial_stock) ==
    IF last_state.k = "num" THEN IntOf(last_state.v) ELSE 0

\* number.py async_added_to_hass: the stock adopted at startup.  A snapshot
\* whose state is a number is adopted as int(float(state)); no snapshot, an
\* "unknown" / "unavailable" one, or one float() rejects gives initial_stock.
RestoredStock(last_state, initial_stock) ==
    IF last_state.k = "num" THEN IntOf(last_state.v) ELSE initial_stock

\* SetNativeResult that clamps the value into the declared range.
SetNativeClamped(cur, value) ==
    LET new == Max(2 * native_min_value, IntOf(value.v))
    IN  IF value.k # "num" \/ cur = new
        THEN [stock |-> cur, wrote |-> FALSE, log |-> "debug",
              raised |-> FALSE, outcome |-> "same"]
        ELSE [stock |-> new, wrote |-> TRUE, log |-> "info",
              raised |-> FALSE, outcome |-> "set"]

\* number.py async_set_native_value: int(value) raises TypeError for None
\* (not caught: only ValueError is), ValueError for a non-numeric string
\* (caught, logged, return); an equal value is skipped; otherwise the stock
\* is replaced and the state written.
SetNativeResult(cur, value) ==
    IF value.k = "none"
    THEN [stock |-> cur, wrote |-> FALSE, log |-> "none", raised |-> TRUE,
          outcome |-> "raised"]
    ELSE IF value.k = "text"
    THEN [stock |-> cur, wrote |-> FALSE, log |-> "error", raised |-> FALSE,
          outcome |-> "invalid"]
    ELSE IF cur = IntOf(value.v)
    THEN [stock |-> cur, wrote |-> FALSE, log |-> "debug", raised |-> FALSE,
          outcome |-> "same"]
    ELSE [stock |-> IntOf(value.v), wrote |-> TRUE, log |-> "info",
          raised |-> FALSE, outcome |-> "set"]

\* dict.update: the keys of u are set in d, the others are kept.
Update(d, u) ==
    [k \in DOMAIN d \cup DOMAIN u |-> IF k \in DOMAIN u THEN u[k] ELSE d[k]]

\* config_flow.py get_threshold_schema: low_stock_days is optional and is
\* filled in with the default 7 when the form gives none.
default_low_stock_days == 7
ThresholdSchema(user_input) ==
    IF "low_stock_days" \in DOMAIN user_input THEN user_input
    ELSE [low_stock_days |-> default_low_stock_days]

\* config_flow.py get_dosage_schema: both fields are coerced to float and
\* nothing else is required of them.
DosageSchema(user_input) == [ok |-> TRUE, value |-> user_input]

\* config_flow.py async_step_threshold lines 78-87: the record completed
\* from the wizard's data after the threshold form was merged into it.
CompletedData(d) ==
    LET withDaily == Update(d, [daily_consumption |->
                                   d.pills_per_dose * d.doses_per_day])
    IN  IF "low_stock_days" \in DOMAIN withDaily THEN withDaily
        ELSE Update(withDaily, [low_stock_days |-> default_low_stock_days])

\* __init__.py lines 63-67, before the handler's try: a list gives its
\* first element (IndexError for an empty list), anything else is taken as
\* it is; "none" stands for None.
EntityIdOf(raw) ==
    IF raw.k \in {"list", "empty_list"}
    THEN IF raw.ids = <<>> THEN [raised |-> TRUE, entity_id |-> "none"]
         ELSE [raised |-> FALSE, entity_id |-> raw.ids[1]]
    ELSE IF raw.k = "missing" THEN [raised |-> FALSE, entity_id |-> "none"]
    ELSE [raised |-> FALSE, entity_id |-> raw.ids[1]]

\* __init__.py lines 74-87: the handler's reading of the published stock.
StateReadable(st) == st.k = "num"
ReadCurrentStock(st) == IntOf(st.v)

\* __init__.py line 95: int(float(attrs.get("pills_per_dose", 0))).
DoseToSubtract(pills_per_dose) == IntOf(pills_per_dose)

\* __init__.py line 104.
TakeDoseNewStock(cur, dose) == Max(0, cur - dose)

\* AddStockNewStock with the amount taken off, as take_dose does.
AddStockSubtracts(cur, amount) == cur - IntOf(amount)

\* __init__.py lines 109-110: int(amount) added, with no test of its sign.
AddStockNewStock(cur, amount) == cur + IntOf(amount)

\* Whether x lies in the range the entity declares (number.py lines 75-76,
\* in tablets), which the host's number.set_value service may enforce.
InRange(x) == 2 * native_min_value <= x /\ x <= 2 * native_max_value

\* DaysFrom rounded to whole days instead of hundredths.
DaysFromWholeDays(stock, daily) ==
    IF daily > 0 THEN 100 * RoundDiv(2 * stock, daily) ELSE InfiniteDays

\* sensor.py _update_state_from_stock: the estimator's two fields from an
\* observed ledger state and the configured daily consumption.
DaysFrom(stock, daily) ==
    IF daily > 0 THEN RoundDiv(200 * stock, daily) ELSE InfiniteDays

\* UpdateStateFromStock that forgets the estimate but not the stock when
\* the observed state is not a number.
UpdateKeepsStock(st, daily) ==
    IF st.k = "num"
    THEN [days |-> Days(DaysFrom(st.v, daily)), stock |-> Stock(st.v)]
    ELSE [days |-> NoDays, stock |-> Stock(0)]

UpdateStateFromStock(st, daily) ==
    IF st.k = "num"
    THEN [days |-> Days(DaysFrom(st.v, daily)), stock |-> Stock(st.v)]
    ELSE [days |-> NoDays, stock |-> NoStock]

\* is_low_stock with < in place of <=.
is_low_stock_strict(days, low_stock_days) ==
    days.known /\ days.v < 100 * low_stock_days

\* sensor.py extra_state_attributes: False unless days_remaining is known
\* and is <= low_stock_days (whole days; the wizard always stores one, so
\* the "is not None" test of the threshold never fails).
is_low_stock(days, low_stock_days) ==
    days.known /\ days.v <= 100 * low_stock_days

\* What async_write_ha_state of the estimator stores in the host's state
\* machine: native_value and the is_low_stock attribute.
NotPublished == [k |-> "none", native_value |-> NoDays, is_low_stock |-> FALSE]
PublishedState(days, low_stock_days) ==
    [k |-> "state", native_value |-> days,
     is_low_stock |-> is_low_stock(days, low_stock_days)]

\* sensor.py async_setup_entry line 39: no estimator without a consumption.
SensorCreated(cfg) == cfg.daily_consumption # 0

\* ------------------------------------------------------------------ state

VARIABLES
    config,          \* entry.data of each medication
    options,         \* entry.options of each medication
    data,            \* MedicationConfigFlow.data, the class attribute
    step,            \* the form each wizard run shows, "none" or "done"
    entries,         \* the records the completed wizard runs created
    entered,         \* history: the validated inputs each run submitted
    created,         \* history: the record each completed run created
    numLife,         \* ledger: "new", "registered", "added", "removed"
    current_stock,   \* MedicationStockNumber._current_stock
    hassState,       \* hass.states entry of the ledger entity
    lastState,       \* what async_get_last_state() returns
    calls,           \* the _handle_service_call coroutines in flight
    sensorLife,      \* estimator: "skipped", "new", "added", "removed"
    remove_listener, \* _remove_listener: "None", "timer", "sub"
    timers,          \* pending async_call_later callbacks of the estimator
    subs,            \* live state-change subscriptions of the estimator
    days_remaining,  \* MedicationDaysRemainingSensor._days_remaining
    sensor_stock,    \* MedicationDaysRemainingSensor._current_stock
    published,       \* hass.states entry of the estimator
    retried,         \* history: a resolution of the estimator has failed
    notified,        \* ledgers whose state_changed event this step fired
    sensorWrote,     \* estimators that wrote their state in this step
    logged,          \* level of the log record this step emitted
    raised,          \* an exception left the operation of this step
    returned,        \* the service call or setter call this step completed
    now,             \* wall clock, seconds
    lastTakeAt,      \* history: time of the last accepted take_dose, or -1
    batch,           \* history: handler calls overlapping on a ledger
    ops,             \* service calls made so far
    restarts         \* restarts so far

ledgerVars == <<numLife, current_stock, hassState, lastState>>
sensorVars == <<sensorLife, remove_listener, timers, subs, days_remaining,
                sensor_stock, published, retried>>
outVars == <<notified, sensorWrote, logged, raised, returned>>
histVars == <<now, lastTakeAt, batch, ops, restarts>>
flowVars == <<options, data, step, entries, entered, created>>
vars == <<config, flowVars, ledgerVars, calls, sensorVars, outVars, histVars>>

FreeCall ==
    [pc |-> "free", svc |-> "none", target |-> "none", amount |-> 0,
     read |-> 0, cur |-> 0, new |-> 0, dup |-> FALSE]
\* A completed call: its target and the kind of its argument (a handler:
\* of entity_id; the setter: of the value), the stock it read (a handler:
\* the published state; the setter: the ledger's stock), and how it ended.
NoCall ==
    [svc |-> "none", target |-> "none", arg |-> "none", amount |-> 0,
     read |-> 0, dup |-> FALSE, outcome |-> "none"]
Returned(svc, m, arg, amount, read, dup, outcome) ==
    [svc |-> svc, target |-> m, arg |-> arg, amount |-> amount,
     read |-> read, dup |-> dup, outcome |-> outcome]
EmptyBatch == [base |-> 0, calls |-> <<>>, clean |-> TRUE]

InFlight(m) == {h \in Handlers : calls[h].pc = "awaiting" /\ calls[h].target = m}

InitWith(M, choices) ==
    /\ config \in [Meds -> choices \cup {MakeConfig(6, 2, 2, 7)}]
    /\ \A m \in M : config[m] \in choices
    /\ \A m \in Meds \ M : config[m] = MakeConfig(6, 2, 2, 7)
    /\ options = [m \in Meds |-> NoOptions]
    /\ data = NoData
    /\ step = [f \in Flows |-> "none"]
    /\ entries = {}
    /\ entered = [f \in Flows |-> NoData]
    /\ created = [f \in Flows |-> NoData]
    /\ numLife = [m \in Meds |-> "new"]
    /\ current_stock = [m \in Meds |-> config[m].initial_stock]
    /\ hassState = [m \in Meds |-> NoState]
    /\ lastState = [m \in Meds |-> NoState]
    /\ calls = [h \in Handlers |-> FreeCall]
    /\ sensorLife = [m \in Meds |->
                        IF SensorCreated(config[m]) THEN "new" ELSE "skipped"]
    /\ remove_listener = [m \in Meds |-> "None"]
    /\ timers = [m \in Meds |-> 0]
    /\ subs = [m \in Meds |-> 0]
    /\ days_remaining = [m \in Meds |-> NoDays]
    /\ sensor_stock = [m \in Meds |-> NoStock]
    /\ published = [m \in Meds |-> NotPublished]
    /\ retried = [m \in Meds |-> FALSE]
    /\ notified = {}
    /\ sensorWrote = {}
    /\ logged = "none"
    /\ raised = FALSE
    /\ returned = NoCall
    /\ now = 0
    /\ lastTakeAt = [m \in Meds |-> 0 - 1]
    /\ batch = [m \in Meds |-> EmptyBatch]
    /\ ops = 0
    /\ restarts = 0

\* The state after construction, for the records the ledger is studied with
\* and for those the estimator is studied with.
Init == InitWith(Studied, ConfigChoices)
InitSync == InitWith(Studied, SyncConfigs)
InitPair ==
    /\ InitWith(Meds, PairConfigs)
    /\ config["medA"].initial_stock < config["medB"].initial_stock
InitEstimator == InitWith(Studied, EstimatorConfigs)


\* ------------------------------------------------------- the ledger entity

\* What a step that touches neither ledger nor estimator leaves alone.
Silent == notified' = {} /\ sensorWrote' = {}

\* StateChanged with a listener that does nothing.
StateChangedUnheard(m, st, fired) ==
    /\ sensorWrote' = {}
    /\ UNCHANGED <<days_remaining, sensor_stock, published>>

\* A state_changed event of ledger m with new state st, if one fired: the
\* estimator's listener (sensor.py lines 156-162) runs if it is subscribed.
StateChanged(m, st, fired) ==
    LET heard == fired /\ subs[m] > 0
        upd == UpdateStateFromStock(st, config[m].daily_consumption)
    IN  /\ days_remaining' =
               IF heard THEN [days_remaining EXCEPT ![m] = upd.days]
               ELSE days_remaining
        /\ sensor_stock' =
               IF heard THEN [sensor_stock EXCEPT ![m] = upd.stock]
               ELSE sensor_stock
        /\ published' =
               IF heard
               THEN [published EXCEPT ![m] =
                        PublishedState(upd.days, config[m].low_stock_days)]
               ELSE published
        /\ sensorWrote' = IF heard THEN {m} ELSE {}

\* WriteLedgerState on a stock that all the ledgers share.
WriteSharedState(m, stk) ==
    LET st == NumState(stk)
        fired == hassState[m] # st
    IN  /\ current_stock' = [x \in Meds |-> stk]
        /\ hassState' = [hassState EXCEPT ![m] = st]
        /\ notified' = IF fired THEN {m} ELSE {}
        /\ StateChanged(m, st, fired)

\* async_write_ha_state of the ledger after its stock became stk: the host
\* stores str(float(stk)) and, when that differs from the stored state, fires
\* state_changed.
WriteLedgerState(m, stk) ==
    LET st == NumState(stk)
        fired == hassState[m] # st
    IN  /\ current_stock' = [current_stock EXCEPT ![m] = stk]
        /\ hassState' = [hassState EXCEPT ![m] = st]
        /\ notified' = IF fired THEN {m} ELSE {}
        /\ StateChanged(m, st, fired)


\* A history of the handler calls that overlap on ledger m is kept only
\* while it consists of calls that ran from start to set_value; anything
\* else that touches the ledger meanwhile spoils it.
Spoil(m) == IF InFlight(m) = {} THEN EmptyBatch
            ELSE [batch[m] EXCEPT !.clean = FALSE]

\* The entity platform registers the ledger in the entity registry
\* (number.py async_setup_entry, async_add_entities).
NumberRegistered(m) ==
    /\ numLife[m] = "new"
    /\ numLife' = [numLife EXCEPT ![m] = "registered"]
    /\ Silent /\ logged' = "none" /\ raised' = FALSE /\ returned' = NoCall
    /\ UNCHANGED <<config, flowVars, current_stock, hassState, lastState, calls,
                   sensorVars, histVars>>

\* number.py async_added_to_hass: restore, then write the state.
NumberAddedToHass(m) ==
    /\ numLife[m] = "registered"
    /\ numLife' = [numLife EXCEPT ![m] = "added"]
    /\ WriteLedgerState(m, RestoredStock(lastState[m], config[m].initial_stock))
    /\ logged' = IF lastState[m].k = "num" THEN "debug"
                 ELSE IF lastState[m].k = "text" THEN "warning" ELSE "none"
    /\ raised' = FALSE /\ returned' = NoCall
    /\ UNCHANGED <<config, flowVars, lastState, calls, sensorLife, remove_listener,
                   timers, subs, retried, now, lastTakeAt, batch, ops,
                   restarts>>

\* number.py async_set_native_value called with value.
SetNative(m, value) ==
    LET r == SetNativeResult(current_stock[m], value)
    IN  /\ IF r.wrote THEN WriteLedgerState(m, r.stock)
           ELSE /\ Silent
                /\ UNCHANGED <<current_stock, hassState, days_remaining,
                               sensor_stock, published>>
        /\ logged' = r.log
        /\ raised' = r.raised

\* The ledger entity is removed while its registry entry stays (it is
\* disabled, or its platform is unloaded): the host replaces its state by
\* "unavailable" and fires state_changed.  No handler is suspended on it.
NumberRemoved(m) ==
    /\ numLife[m] = "added"
    /\ InFlight(m) = {}
    /\ numLife' = [numLife EXCEPT ![m] = "removed"]
    /\ hassState' = [hassState EXCEPT ![m] = Unavailable]
    /\ notified' = {m}
    /\ StateChanged(m, Unavailable, TRUE)
    /\ logged' = "none" /\ raised' = FALSE /\ returned' = NoCall
    /\ batch' = [batch EXCEPT ![m] = EmptyBatch]
    /\ UNCHANGED <<config, flowVars, current_stock, lastState, calls, sensorLife,
                   remove_listener, timers, subs, retried, now, lastTakeAt,
                   ops, restarts>>

\* SetQuantity: the ledger's setter called with any value.
SetQuantity(m, value) ==
    /\ numLife[m] = "added"
    /\ ops < MaxOps
    /\ SetNative(m, value)
    /\ returned' = Returned("set_quantity", m, value.k, value.v,
                            current_stock[m], FALSE,
                            SetNativeResult(current_stock[m], value).outcome)
    /\ ops' = ops + 1
    /\ batch' = [batch EXCEPT ![m] = Spoil(m)]
    /\ UNCHANGED <<config, flowVars, numLife, lastState, calls, sensorLife,
                   remove_listener, timers, subs, retried, now, lastTakeAt,
                   restarts>>


\* ------------------------------------------------- the service-call handler

\* __init__.py _handle_service_call up to its await (lines 63-118), called
\* with entity_id raw: the target is resolved, its published stock is read
\* and the new stock computed.  The coroutine then
\* either returns (an error, a warning, or nothing to change) or suspends in
\* hass.services.async_call("number", "set_value", ...).
HandlerStart(h, svc, raw, amount) ==
    LET id == EntityIdOf(raw)
        m == id.entity_id
        st == IF m \in Meds THEN hassState[m] ELSE NoState
        cur == ReadCurrentStock(st)
        dose == IF m \in Meds THEN DoseToSubtract(config[m].pills_per_dose)
                ELSE 0
        new == IF svc = SERVICE_TAKE_DOSE THEN TakeDoseNewStock(cur, dose)
               ELSE AddStockNewStock(cur, amount)
        accepted == /\ ~id.raised
                    /\ StateReadable(st)
                    /\ svc = SERVICE_TAKE_DOSE => dose > 0
        suspends == accepted /\ new # cur
        dup == /\ m \in Meds
               /\ lastTakeAt[m] >= 0 /\ now - lastTakeAt[m] < 60
               /\ InFlight(m) = {}
        op == [svc |-> svc, amount |-> amount]
    IN  /\ calls[h].pc = "free"
        /\ ops < MaxOps
        /\ svc = SERVICE_TAKE_DOSE => amount = 0
        /\ ops' = ops + 1
        /\ calls' = IF suspends
                    THEN [calls EXCEPT ![h] =
                            [pc |-> "awaiting", svc |-> svc, target |-> m,
                             amount |-> amount, read |-> st.v, cur |-> cur,
                             new |-> new,
                             dup |-> svc = SERVICE_TAKE_DOSE /\ dup]]
                    ELSE calls
        /\ logged' = IF id.raised THEN "none"
                     ELSE IF ~StateReadable(st) THEN "error"
                     ELSE IF ~accepted THEN "warning" ELSE "info"
        /\ raised' = id.raised
        /\ returned' =
               IF suspends THEN NoCall
               ELSE Returned(svc, m, raw.k, amount, st.v,
                             svc = SERVICE_TAKE_DOSE /\ dup,
                             IF id.raised THEN "escaped"
                             ELSE IF m = "none" THEN "missing"
                             ELSE IF ~StateReadable(st) THEN "unreadable"
                             ELSE IF ~accepted THEN "nodose"
                             ELSE "unchanged")
        /\ lastTakeAt' = IF accepted /\ svc = SERVICE_TAKE_DOSE
                         THEN [lastTakeAt EXCEPT ![m] = now]
                         ELSE lastTakeAt
        /\ batch' = IF m \notin Meds THEN batch
                    ELSE [batch EXCEPT ![m] =
                            IF ~suspends THEN Spoil(m)
                            ELSE IF InFlight(m) = {}
                            THEN [base |-> current_stock[m],
                                  calls |-> <<op>>, clean |-> TRUE]
                            ELSE [batch[m] EXCEPT !.calls = Append(@, op)]]
        /\ Silent
        /\ UNCHANGED <<config, flowVars, ledgerVars, sensorVars, now, restarts>>

\* How the batch history changes when call h leaves: the last one closes it.
Leave(h, m, spoiled) ==
    IF InFlight(m) \ {h} = {} THEN EmptyBatch
    ELSE IF spoiled THEN [batch[m] EXCEPT !.clean = FALSE]
    ELSE batch[m]

\* __init__.py lines 119-125: the awaited number.set_value call reaches the
\* ledger's async_set_native_value with new_stock, and the handler returns.
HandlerSetValue(h) ==
    LET c == calls[h]
    IN  /\ c.pc = "awaiting"
        /\ SetNative(c.target, NumArg(c.new))
        /\ returned' = Returned(c.svc, c.target, "id", c.amount, c.read,
                                c.dup, "set")
        /\ calls' = [calls EXCEPT ![h] = FreeCall]
        /\ batch' = [batch EXCEPT ![c.target] = Leave(h, c.target, FALSE)]
        /\ UNCHANGED <<config, flowVars, numLife, lastState, sensorLife,
                       remove_listener, timers, subs, retried, now,
                       lastTakeAt, ops, restarts>>

\* The host may refuse a value outside the range the entity declares; the
\* refusal is an exception out of async_call, caught and logged by the
\* handler's except clause (lines 127-131).
HandlerSetValueRefused(h) ==
    LET c == calls[h]
    IN  /\ c.pc = "awaiting"
        /\ ~InRange(c.new)
        /\ calls' = [calls EXCEPT ![h] = FreeCall]
        /\ batch' = [batch EXCEPT ![c.target] = Leave(h, c.target, TRUE)]
        /\ logged' = "error" /\ raised' = FALSE
        /\ returned' = Returned(c.svc, c.target, "id", c.amount, c.read,
                                c.dup, "refused")
        /\ Silent
        /\ UNCHANGED <<config, flowVars, ledgerVars, sensorVars, now, lastTakeAt, ops,
                       restarts>>

\* ------------------------------------------------------------ the estimator

\* Calling the stored handle: a timer handle cancels the estimator's pending
\* timer if there is one, a subscription handle unsubscribes.
CallHandle(handle, t, s) ==
    [timers |-> IF handle = "timer" THEN Max(0, t - 1) ELSE t,
     subs |-> IF handle = "sub" THEN Max(0, s - 1) ELSE s]

\* SetupStockListener that gives up after a failed resolution: no retry is
\* scheduled.
SetupStockListenerOnce(m, t) ==
    LET resolved == numLife[m] # "new"
        current_state == hassState[m]
        pulls == current_state.k # "none"
        upd == UpdateStateFromStock(current_state, config[m].daily_consumption)
    IN  IF ~resolved
        THEN /\ timers' = [timers EXCEPT ![m] = t]
             /\ retried' = [retried EXCEPT ![m] = TRUE]
             /\ sensorWrote' = {}
             /\ UNCHANGED <<remove_listener, subs, days_remaining,
                            sensor_stock, published>>
        ELSE /\ remove_listener' = [remove_listener EXCEPT ![m] = "sub"]
             /\ timers' = [timers EXCEPT ![m] = t]
             /\ subs' = [subs EXCEPT ![m] = subs[m] + 1]
             /\ days_remaining' =
                    IF pulls THEN [days_remaining EXCEPT ![m] = upd.days]
                    ELSE days_remaining
             /\ sensor_stock' =
                    IF pulls THEN [sensor_stock EXCEPT ![m] = upd.stock]
                    ELSE sensor_stock
             /\ published' =
                    IF pulls
                    THEN [published EXCEPT ![m] =
                             PublishedState(upd.days,
                                            config[m].low_stock_days)]
                    ELSE published
             /\ sensorWrote' = IF pulls THEN {m} ELSE {}
             /\ UNCHANGED retried

\* SetupStockListener that subscribes without storing the handle of the
\* subscription.
SetupStockListenerUnstored(m, t) ==
    LET resolved == numLife[m] # "new"
        freed == CallHandle(remove_listener[m], t, subs[m])
        current_state == hassState[m]
        pulls == current_state.k # "none"
        upd == UpdateStateFromStock(current_state, config[m].daily_consumption)
    IN  IF ~resolved
        THEN /\ remove_listener' = [remove_listener EXCEPT ![m] = "timer"]
             /\ timers' = [timers EXCEPT ![m] = t + 1]
             /\ retried' = [retried EXCEPT ![m] = TRUE]
             /\ sensorWrote' = {}
             /\ UNCHANGED <<subs, days_remaining, sensor_stock, published>>
        ELSE /\ timers' = [timers EXCEPT ![m] = freed.timers]
             /\ subs' = [subs EXCEPT ![m] = freed.subs + 1]
             /\ days_remaining' =
                    IF pulls THEN [days_remaining EXCEPT ![m] = upd.days]
                    ELSE days_remaining
             /\ sensor_stock' =
                    IF pulls THEN [sensor_stock EXCEPT ![m] = upd.stock]
                    ELSE sensor_stock
             /\ published' =
                    IF pulls
                    THEN [published EXCEPT ![m] =
                             PublishedState(upd.days,
                                            config[m].low_stock_days)]
                    ELSE published
             /\ sensorWrote' = IF pulls THEN {m} ELSE {}
             /\ UNCHANGED <<remove_listener, retried>>

\* sensor.py _setup_stock_listener, entered with t timers pending.
SetupStockListener(m, t) ==
    LET resolved == numLife[m] # "new"
        freed == CallHandle(remove_listener[m], t, subs[m])
        current_state == hassState[m]
        pulls == current_state.k # "none"
        upd == UpdateStateFromStock(current_state, config[m].daily_consumption)
    IN  IF ~resolved
        THEN /\ remove_listener' = [remove_listener EXCEPT ![m] = "timer"]
             /\ timers' = [timers EXCEPT ![m] = t + 1]
             /\ retried' = [retried EXCEPT ![m] = TRUE]
             /\ sensorWrote' = {}
             /\ UNCHANGED <<subs, days_remaining, sensor_stock, published>>
        ELSE /\ remove_listener' = [remove_listener EXCEPT ![m] = "sub"]
             /\ timers' = [timers EXCEPT ![m] = freed.timers]
             /\ subs' = [subs EXCEPT ![m] = freed.subs + 1]
             /\ days_remaining' =
                    IF pulls THEN [days_remaining EXCEPT ![m] = upd.days]
                    ELSE days_remaining
             /\ sensor_stock' =
                    IF pulls THEN [sensor_stock EXCEPT ![m] = upd.stock]
                    ELSE sensor_stock
             /\ published' =
                    IF pulls
                    THEN [published EXCEPT ![m] =
                             PublishedState(upd.days,
                                            config[m].low_stock_days)]
                    ELSE published
             /\ sensorWrote' = IF pulls THEN {m} ELSE {}
             /\ UNCHANGED retried

\* sensor.py async_added_to_hass.
SensorAddedToHass(m) ==
    /\ sensorLife[m] = "new"
    /\ sensorLife' = [sensorLife EXCEPT ![m] = "added"]
    /\ SetupStockListener(m, timers[m])
    /\ notified' = {} /\ logged' = "debug" /\ raised' = FALSE
    /\ returned' = NoCall
    /\ UNCHANGED <<config, flowVars, ledgerVars, calls, histVars>>

\* A pending async_call_later callback runs _setup_stock_listener again.
RetryTimerFires(m) ==
    /\ timers[m] > 0
    /\ SetupStockListener(m, timers[m] - 1)
    /\ notified' = {} /\ logged' = "debug" /\ raised' = FALSE
    /\ returned' = NoCall
    /\ UNCHANGED <<config, flowVars, ledgerVars, calls, sensorLife, histVars>>

\* A removal that releases nothing.
RemoveKeepsHandle(handle, t, s) == [timers |-> t, subs |-> s]

\* sensor.py async_will_remove_from_hass.
RemoveResult(handle, t, s) ==
    IF handle # "None" THEN CallHandle(handle, t, s)
    ELSE [timers |-> t, subs |-> s]

SensorRemoved(m) ==
    LET r == RemoveResult(remove_listener[m], timers[m], subs[m])
    IN  /\ sensorLife[m] = "added"
        /\ sensorLife' = [sensorLife EXCEPT ![m] = "removed"]
        /\ timers' = [timers EXCEPT ![m] = r.timers]
        /\ subs' = [subs EXCEPT ![m] = r.subs]
        /\ Silent /\ logged' = "none" /\ raised' = FALSE /\ returned' = NoCall
        /\ UNCHANGED <<config, flowVars, ledgerVars, calls, remove_listener,
                       days_remaining, sensor_stock, published, retried,
                       histVars>>

\* ------------------------------------------------------------------ the host

\* The host restarts: every entity is constructed again from entry.data, the
\* entity registry is kept, and the ledger's snapshot is its last written
\* state, or is absent, a marker or unreadable.
Restart(snap) ==
    /\ restarts < MaxRestarts
    /\ restarts' = restarts + 1
    /\ \A m \in Meds : snap[m] \in BadSnapshots \cup {hassState[m]}
    /\ lastState' = snap
    /\ numLife' = [m \in Meds |->
                      IF numLife[m] = "new" THEN "new" ELSE "registered"]
    /\ current_stock' = [m \in Meds |-> config[m].initial_stock]
    /\ hassState' = [m \in Meds |-> NoState]
    /\ calls' = [h \in Handlers |-> FreeCall]
    /\ sensorLife' = [m \in Meds |->
                         IF SensorCreated(config[m]) THEN "new" ELSE "skipped"]
    /\ remove_listener' = [m \in Meds |-> "None"]
    /\ timers' = [m \in Meds |-> 0]
    /\ subs' = [m \in Meds |-> 0]
    /\ days_remaining' = [m \in Meds |-> NoDays]
    /\ sensor_stock' = [m \in Meds |-> NoStock]
    /\ published' = [m \in Meds |-> NotPublished]
    /\ retried' = [m \in Meds |-> FALSE]
    /\ batch' = [m \in Meds |-> EmptyBatch]
    /\ data' = NoData
    /\ step' = [f \in Flows |-> IF step[f] = "done" THEN "done" ELSE "none"]
    /\ entered' = [f \in Flows |->
                      IF step[f] = "done" THEN entered[f] ELSE NoData]
    /\ Silent /\ logged' = "none" /\ raised' = FALSE /\ returned' = NoCall
    /\ UNCHANGED <<config, options, entries, created, now, lastTakeAt, ops>>

\* ------------------------------------------------------ the configuration flows

\* What a step of a configuration flow leaves alone.
FlowOnly ==
    /\ Silent /\ logged' = "none" /\ raised' = FALSE /\ returned' = NoCall
    /\ UNCHANGED <<config, ledgerVars, calls, sensorVars, histVars>>

\* config_flow.py MedicationOptionsFlowHandler.async_step_init with
\* user_input: the input becomes entry.options.  entry.data is not touched,
\* and no update listener reloads the entities.
OptionsEdit(m, user_input) ==
    /\ options' = [options EXCEPT ![m] = user_input]
    /\ FlowOnly
    /\ UNCHANGED <<data, step, entries, entered, created>>

\* A wizard run begins: async_step_user without input shows the first form.
FlowBegins(f) ==
    /\ step[f] = "none"
    /\ step' = [step EXCEPT ![f] = "user"]
    /\ FlowOnly
    /\ UNCHANGED <<options, data, entries, entered, created>>

\* async_step_user with user_input (lines 41-43).
StepUser(f, user_input) ==
    /\ step[f] = "user"
    /\ data' = Update(data, user_input)
    /\ entered' = [entered EXCEPT ![f] = Update(@, user_input)]
    /\ step' = [step EXCEPT ![f] = "dosage"]
    /\ FlowOnly
    /\ UNCHANGED <<options, entries, created>>

\* async_step_dosage with user_input (lines 62-64), after the form's schema.
StepDosage(f, user_input) ==
    LET checked == DosageSchema(user_input)
    IN  /\ step[f] = "dosage"
        /\ IF checked.ok
           THEN /\ data' = Update(data, checked.value)
                /\ entered' = [entered EXCEPT ![f] = Update(@, checked.value)]
                /\ step' = [step EXCEPT ![f] = "threshold"]
           ELSE UNCHANGED <<data, step, entered>>
        /\ FlowOnly
        /\ UNCHANGED <<options, entries, created>>

\* async_step_threshold with user_input (lines 77-92): the run completes
\* and the entry is created from the wizard's data.
StepThreshold(f, user_input) ==
    LET merged == Update(data, ThresholdSchema(user_input))
    IN  /\ step[f] = "threshold"
        /\ {"pills_per_dose", "doses_per_day"} \subseteq DOMAIN merged
        /\ data' = CompletedData(merged)
        /\ entries' = entries \cup {data'}
        /\ entered' = [entered EXCEPT
                          ![f] = Update(@, ThresholdSchema(user_input))]
        /\ created' = [created EXCEPT ![f] = data']
        /\ step' = [step EXCEPT ![f] = "done"]
        /\ FlowOnly
        /\ UNCHANGED options

\* Time passes.
Tick ==
    /\ now + TickSeconds <= MaxTime
    /\ now' = now + TickSeconds
    /\ Silent /\ logged' = "none" /\ raised' = FALSE /\ returned' = NoCall
    /\ UNCHANGED <<config, flowVars, ledgerVars, calls, sensorVars, lastTakeAt, batch,
                   ops, restarts>>

\* The snapshots a restart can leave when the ledgers of M have run.
Snapshots(M) ==
    { snap \in [Meds -> BadSnapshots \cup {hassState[m] : m \in Meds}] :
          \A m \in Meds \ M : snap[m] = NoState }

\* The ledger entity, its startup and the service handlers.
LedgerNext ==
    \/ \E m \in Studied : NumberRegistered(m)
    \/ \E m \in Studied : NumberAddedToHass(m)
    \/ \E m \in Studied, value \in SetValues : SetQuantity(m, value)
    \/ \E h \in Handlers, m \in Studied :
           HandlerStart(h, SERVICE_TAKE_DOSE, OneTarget(m), 0)
    \/ \E h \in Handlers, m \in Studied, amount \in AddAmounts :
           HandlerStart(h, SERVICE_ADD_STOCK, OneTarget(m), amount)
    \/ \E h \in Handlers : HandlerSetValue(h)
    \/ \E h \in Handlers : HandlerSetValueRefused(h)
    \/ \E snap \in Snapshots(Studied) :
           Restart(snap)

\* The service handlers called with every kind of entity_id, on a ledger
\* that starts, is changed by them and is removed.
TargetNext ==
    \/ \E m \in Studied : NumberRegistered(m)
    \/ \E m \in Studied : NumberAddedToHass(m)
    \/ \E m \in Studied : NumberRemoved(m)
    \/ \E h \in Handlers, raw \in TargetChoices :
           HandlerStart(h, SERVICE_TAKE_DOSE, raw, 0)
    \/ \E h \in Handlers, raw \in TargetChoices, amount \in AddAmounts :
           HandlerStart(h, SERVICE_ADD_STOCK, raw, amount)
    \/ \E h \in Handlers : HandlerSetValue(h)
    \/ \E h \in Handlers : HandlerSetValueRefused(h)

\* The estimator beside a ledger that starts, is set and restarts.
EstimatorNext ==
    \/ \E m \in Studied : NumberRegistered(m)
    \/ \E m \in Studied : NumberAddedToHass(m)
    \/ \E m \in Studied, value \in SetValues : SetQuantity(m, value)
    \/ \E m \in Studied : NumberRemoved(m)
    \/ \E m \in Studied : SensorAddedToHass(m)
    \/ \E m \in Studied : RetryTimerFires(m)
    \/ \E m \in Studied : SensorRemoved(m)
    \/ \E snap \in Snapshots(Studied) :
           Restart(snap)

\* The entities of a configured medication while its options are edited.
OptionsNext ==
    \/ \E m \in Studied : NumberRegistered(m)
    \/ \E m \in Studied : NumberAddedToHass(m)
    \/ \E m \in Studied : SensorAddedToHass(m)
    \/ \E m \in Studied : RetryTimerFires(m)
    \/ \E m \in Studied, user_input \in OptionChoices :
           OptionsEdit(m, user_input)
    \/ \E snap \in Snapshots(Studied) :
           Restart(snap)

\* The service handlers called on the studied ledger.
HandlerNext ==
    \/ \E h \in Handlers, m \in Studied :
           HandlerStart(h, SERVICE_TAKE_DOSE, OneTarget(m), 0)
    \/ \E h \in Handlers, m \in Studied, amount \in PairAmounts :
           HandlerStart(h, SERVICE_ADD_STOCK, OneTarget(m), amount)
    \/ \E h \in Handlers : HandlerSetValue(h)
    \/ \E h \in Handlers : HandlerSetValueRefused(h)

\* The estimator beside a ledger that starts, is set, is changed by the
\* handlers and restarts.
SyncNext ==
    \/ \E m \in Studied : NumberRegistered(m)
    \/ \E m \in Studied : NumberAddedToHass(m)
    \/ \E m \in Studied : SensorAddedToHass(m)
    \/ \E m \in Studied : RetryTimerFires(m)
    \/ \E m \in Studied, value \in PairSetValues : SetQuantity(m, value)
    \/ HandlerNext
    \/ \E snap \in Snapshots(Studied) : Restart(snap)

\* Two medications side by side: their entities start, and the handlers
\* and the setter are called on either of them.
PairNext ==
    \/ \E m \in Meds : NumberRegistered(m)
    \/ \E m \in Meds : NumberAddedToHass(m)
    \/ \E m \in Meds : SensorAddedToHass(m)
    \/ \E m \in Meds : RetryTimerFires(m)
    \/ \E m \in Meds, value \in PairSetValues : SetQuantity(m, value)
    \/ \E h \in Handlers, a \in Meds, b \in Meds :
           /\ a # b
           /\ \/ HandlerStart(h, SERVICE_TAKE_DOSE, OneTarget(a), 0)
              \/ HandlerStart(h, SERVICE_TAKE_DOSE, ListTarget(<<a, b>>), 0)
    \/ \E h \in Handlers, m \in Meds, amount \in PairAmounts :
           HandlerStart(h, SERVICE_ADD_STOCK, OneTarget(m), amount)
    \/ \E h \in Handlers : HandlerSetValue(h)
    \/ \E h \in Handlers : HandlerSetValueRefused(h)

\* The runs of the configuration wizard.
WizardNext ==
    \/ \E f \in Flows : FlowBegins(f)
    \/ \E f \in Flows, user_input \in UserInputs : StepUser(f, user_input)
    \/ \E f \in Flows, user_input \in DosageInputs :
           StepDosage(f, user_input)
    \/ \E f \in Flows, user_input \in ThresholdInputs :
           StepThreshold(f, user_input)

Next ==
    LedgerNext \/ TargetNext \/ EstimatorNext \/ SyncNext \/ PairNext
        \/ OptionsNext \/ WizardNext \/ Tick

\* Every step of the program.
Spec == Init /\ [][Next]_vars
\* The ledger and the service handlers alone (the estimator never acts on
\* the ledger, so it is left in its constructed state).
SpecLedger == Init /\ [][LedgerNext]_vars
\* The service handlers and the ways they are addressed.
SpecTargets == Init /\ [][TargetNext]_vars
\* The ledger and the handlers with the wall clock.
SpecClock == Init /\ [][LedgerNext \/ Tick]_vars
\* The estimator beside a ledger that the handlers change as well.
SpecSync == InitSync /\ [][SyncNext]_vars
\* Two medications.
SpecPair == InitPair /\ [][PairNext]_vars
\* The options flow beside the entities.
SpecOptions == InitEstimator /\ [][OptionsNext]_vars
\* The configuration wizard.
SpecWizard == Init /\ [][WizardNext]_vars
\* The estimator and the ledger it observes.
SpecEstimator == InitEstimator /\ [][EstimatorNext]_vars
\* The event loop runs every callback that is due: a pending retry timer
\* fires unless it is cancelled.
SpecEstimatorFair ==
    /\ InitEstimator
    /\ [][EstimatorNext]_vars
    /\ \A m \in Meds : WF_vars(RetryTimerFires(m))

\* -------------------------------------------------------------- properties

HandlerServices == {SERVICE_TAKE_DOSE, SERVICE_ADD_STOCK}

\* C1: in every reachable state the ledger's currentQuantity is >= 0,
\* whatever arguments SetQuantity, take_dose, add_stock and the restore
\* were given.
C1_StockNeverNegative == \A m \in Meds : current_stock[m] >= 0

\* C2: an accepted take_dose on a ledger publishing q >= 0, with configured
\* dose size d > 0 (fractional d included), leaves currentQuantity equal to
\* max(0, q - d).
C2_TakeDoseSubtractsDose ==
    ( /\ returned.svc = SERVICE_TAKE_DOSE
      /\ returned.outcome \in {"set", "unchanged"}
      /\ returned.read >= 0 )
    => current_stock[returned.target] =
           Max(0, returned.read - config[returned.target].pills_per_dose)

\* C3: a take_dose invoked less than 60 seconds after the previous take_dose
\* on the same ledger (which has returned) is rejected: it does not change
\* currentQuantity and publishes no notification.
C3_SecondDoseRejected ==
    (returned.svc = SERVICE_TAKE_DOSE /\ returned.dup)
    => /\ returned.outcome \notin {"set", "refused"}
       /\ notified = {}

\* The stock a handler call leaves when it runs alone on a ledger holding q:
\* the set has two members when the new stock is outside the declared range,
\* which the host may refuse.
ApplyAlone(m, q, op) ==
    LET cur == IntOf(q)
        new == IF op.svc = SERVICE_TAKE_DOSE
               THEN TakeDoseNewStock(cur,
                        DoseToSubtract(config[m].pills_per_dose))
               ELSE AddStockNewStock(cur, op.amount)
    IN  IF new = cur THEN {q}
        ELSE IF InRange(new) THEN {new} ELSE {new, q}

\* The stocks that the calls with indices in todo can leave when they run
\* one after another, in any order, from stock q.
RECURSIVE SerialResults(_, _, _, _)
SerialResults(m, q, ops_, todo) ==
    IF todo = {} THEN {q}
    ELSE UNION { UNION { SerialResults(m, q2, ops_, todo \ {i})
                         : q2 \in ApplyAlone(m, q, ops_[i]) }
                 : i \in todo }

\* C4: mutations of one ledger are serialized: when the last of a group of
\* overlapping take_dose / add_stock handlers has returned, currentQuantity
\* is what those calls yield applied one after another in some order.
C4_HandlersSerialized ==
    [][ \A m \in Meds :
          ( /\ InFlight(m) # {}
            /\ \A h \in Handlers :
                   ~(calls'[h].pc = "awaiting" /\ calls'[h].target = m)
            /\ batch[m].clean
            /\ returned'.outcome = "set" )
          => current_stock'[m] \in
                 SerialResults(m, batch[m].base, batch[m].calls,
                               DOMAIN batch[m].calls) ]_vars

\* C5: add_stock with amount <= 0 leaves currentQuantity unchanged and
\* publishes no notification.
C5_NonPositiveAddIsNoOp ==
    ( /\ returned.svc = SERVICE_ADD_STOCK
      /\ returned.amount <= 0
      /\ returned.target \in Meds
      /\ returned.outcome # "unreadable" )
    => /\ current_stock[returned.target] = returned.read
       /\ notified = {}

\* C6 as stated: add_stock with amount > 0 on a ledger publishing q leaves
\* currentQuantity equal to q + amount and publishes a notification, for
\* every q and amount (fractional amounts, sums above 1000).
C6_AddStockAddsAmount ==
    ( /\ returned.svc = SERVICE_ADD_STOCK
      /\ returned.amount > 0
      /\ returned.target \in Meds
      /\ returned.outcome # "unreadable" )
    => /\ current_stock[returned.target] = returned.read + returned.amount
       /\ returned.target \in notified

\* C6 amended: add_stock with amount > 0 on a ledger publishing q, where
\* int(q) + int(amount) lies in the declared range 0..1000: if int(amount)
\* is 0 nothing changes and nothing is published; otherwise currentQuantity
\* becomes int(q) + int(amount), and a notification is published unless the
\* ledger already held that value when set_value arrived.
C6_AddStockAddsWholeAmount ==
    [][ LET r == returned'
            t == r.target
            sum == IntOf(r.read) + IntOf(r.amount)
        IN  ( /\ r.svc = SERVICE_ADD_STOCK
              /\ r.amount > 0
              /\ r.target \in Meds
              /\ r.outcome # "unreadable"
              /\ InRange(sum) )
            => IF IntOf(r.amount) = 0
               THEN /\ r.outcome = "unchanged"
                    /\ current_stock'[t] = current_stock[t]
                    /\ notified' = {}
               ELSE /\ r.outcome = "set"
                    /\ current_stock'[t] = sum
                    /\ t \in notified' <=> current_stock[t] # sum ]_vars

\* An add_stock of 1.5 tablets has been applied as 1 tablet and published.
C6_Witness ==
    /\ returned.svc = SERVICE_ADD_STOCK
    /\ returned.amount = 3
    /\ returned.outcome = "set"
    /\ current_stock[returned.target] = IntOf(returned.read) + 2
    /\ returned.target \in notified

\* C7: SetQuantity with a value that cannot be coerced to a number (a
\* non-numeric string, None) ends as a reported, locally recovered
\* InvalidValue; currentQuantity is unchanged and nothing is published.
C7_InvalidValueRecovered ==
    (returned.svc = "set_quantity" /\ returned.arg \in {"text", "none"})
    => /\ returned.outcome = "invalid"
       /\ logged = "error"
       /\ raised = FALSE
       /\ current_stock[returned.target] = returned.read
       /\ notified = {}

\* C8 as stated: the restore at startup adopts the snapshot's quantity when
\* the snapshot's state is a number, and the configured initial stock in
\* every other case, without an error.
C8_RestoreAdoptsSnapshot ==
    [][ \A m \in Meds :
          (numLife[m] = "registered" /\ numLife'[m] = "added")
          => /\ current_stock'[m] =
                    IF lastState[m].k = "num" THEN lastState[m].v
                    ELSE config[m].initial_stock
             /\ raised' = FALSE ]_vars

\* C8 amended: the restore adopts the snapshot's quantity truncated toward
\* zero to a whole number when the snapshot's state is a number, and the
\* configured initial stock in every other case, without an error.
C8_RestoreAdoptsWholeSnapshot ==
    [][ \A m \in Meds :
          (numLife[m] = "registered" /\ numLife'[m] = "added")
          => /\ current_stock'[m] =
                    IF lastState[m].k = "num" THEN IntOf(lastState[m].v)
                    ELSE config[m].initial_stock
             /\ hassState'[m] = NumState(current_stock'[m])
             /\ raised' = FALSE ]_vars

\* A ledger restarted with an "unavailable" snapshot holds and publishes its
\* configured initial stock.
C8_Witness ==
    \E m \in Meds :
        /\ restarts > 0
        /\ numLife[m] = "added"
        /\ lastState[m] = Unavailable
        /\ current_stock[m] = config[m].initial_stock
        /\ hassState[m] = NumState(config[m].initial_stock)

Linked(m) == remove_listener[m] = "sub"
Unlinked(m) == sensorLife[m] = "added" /\ ~Linked(m)

\* Unlinked, the estimator holds exactly one pending retry and no
\* subscription.
OneRetryPending ==
    \A m \in Meds : Unlinked(m) => timers[m] = 1 /\ subs[m] = 0

\* Once the ledger is resolvable, an estimator that is not removed links.
LinksEventually ==
    \A m \in Meds :
        (sensorLife[m] = "added" /\ numLife[m] # "new")
            ~> (Linked(m) \/ sensorLife[m] # "added")

\* C9 as stated: an estimator created before its ledger is resolvable stays
\* Unlinked with exactly one retry scheduled; once the ledger is resolvable
\* it links, and the first value it holds when Linked is derived from the
\* ledger's currentQuantity at link time.
C9_LinksWithLedgerQuantity ==
    /\ []OneRetryPending
    /\ LinksEventually
    /\ [][ \A m \in Meds :
             (~Linked(m) /\ remove_listener'[m] = "sub")
             => days_remaining'[m] =
                    Days(DaysFrom(current_stock[m],
                                  config[m].daily_consumption)) ]_vars

\* C9 amended: as stated, except that the first value held when Linked is
\* derived from the state the ledger has published at link time: the
\* estimate for the ledger's currentQuantity if the ledger has published it,
\* and unknown if the ledger is registered but has not published yet.
C9_LinksWithPublishedQuantity ==
    /\ []OneRetryPending
    /\ LinksEventually
    /\ [][ \A m \in Meds :
             (~Linked(m) /\ remove_listener'[m] = "sub")
             => /\ timers'[m] = 0 /\ subs'[m] = 1
                /\ IF numLife[m] = "added"
                   THEN /\ days_remaining'[m] =
                               Days(DaysFrom(current_stock[m],
                                             config[m].daily_consumption))
                        /\ sensor_stock'[m] = Stock(current_stock[m])
                   ELSE /\ days_remaining'[m] = NoDays
                        /\ sensor_stock'[m] = NoStock ]_vars

\* An estimator whose first resolution failed is Linked and holds the
\* estimate for the ledger's stock.
C9_Witness ==
    \E m \in Meds :
        /\ retried[m]
        /\ sensorLife[m] = "added"
        /\ Linked(m)
        /\ numLife[m] = "added"
        /\ days_remaining[m] =
               Days(DaysFrom(current_stock[m], config[m].daily_consumption))

\* C10: once an estimator is removed, in either state, none of its retry
\* timers is pending, it has no subscription, and no later step (a ledger
\* change included) changes or republishes it.
C10_RemovedEstimatorIsInert ==
    /\ [](\A m \in Meds :
            sensorLife[m] = "removed" => timers[m] = 0 /\ subs[m] = 0)
    /\ [][ \A m \in Meds :
             (sensorLife[m] = "removed" /\ sensorLife'[m] = "removed")
             => /\ days_remaining'[m] = days_remaining[m]
                /\ sensor_stock'[m] = sensor_stock[m]
                /\ remove_listener'[m] = remove_listener[m]
                /\ m \notin sensorWrote' ]_vars

\* An estimator removed while Linked has not followed a later change of its
\* ledger.
C10_Witness ==
    \E m \in Meds :
        /\ sensorLife[m] = "removed"
        /\ Linked(m)
        /\ sensor_stock[m].known
        /\ numLife[m] = "added"
        /\ sensor_stock[m].v # current_stock[m]

Abs(x) == IF x >= 0 THEN x ELSE 0 - x

\* d (hundredths of a day) is a hundredth nearest to q / r, for q = stock
\* half tablets and r = daily quarter tablets a day: |d/100 - q/r| <= 1/200.
NearestHundredth(d, stock, daily) ==
    2 * Abs(d * daily - 200 * stock) <= daily

\* C11: whenever a Linked estimator observes a valid ledger quantity q (at
\* linking or on a change notification) and its daily consumption r is > 0,
\* it sets daysRemaining to q / r rounded to 2 decimal places; q = 30 and
\* r = 3 give 10.0.
C11_DaysRemainingIsRoundedQuotient ==
    [][ \A m \in Meds :
          LET q == hassState'[m].v
              r == config[m].daily_consumption
          IN  ( /\ m \in sensorWrote'
                /\ hassState'[m].k = "num"
                /\ r > 0 )
              => /\ Linked(m)'
                 /\ days_remaining'[m].known
                 /\ NearestHundredth(days_remaining'[m].v, q, r)
                 /\ (q = 60 /\ r = 12) => days_remaining'[m] = Days(1000)
      ]_vars

\* A Linked estimator has observed 2.5 tablets at 3 a day and holds 0.83
\* days; another run has observed 30 tablets at 3 a day and holds 10.0.
C11_Witness ==
    \E m \in Meds :
        /\ Linked(m) /\ m \in sensorWrote
        /\ \/ /\ sensor_stock[m] = Stock(5)
              /\ config[m].daily_consumption = 12
              /\ days_remaining[m] = Days(83)
           \/ /\ sensor_stock[m] = Stock(60)
              /\ config[m].daily_consumption = 12
              /\ days_remaining[m] = Days(1000)

\* C12: in every reachable estimator state the published isLowStock flag is
\* true exactly when daysRemaining is known and daysRemaining <=
\* lowStockThresholdDays, and false when daysRemaining is unknown.
C12_LowStockFlagFollowsDays ==
    \A m \in Meds :
        published[m].k = "state"
        => /\ published[m].native_value = days_remaining[m]
           /\ published[m].is_low_stock <=>
                  ( /\ days_remaining[m].known
                    /\ days_remaining[m].v <= 100 * config[m].low_stock_days )

\* An estimator with a threshold of 10 days publishes exactly 10.0 days
\* remaining and the flag set.
C12_Witness ==
    \E m \in Meds :
        /\ sensorLife[m] = "added"
        /\ config[m].low_stock_days = 10
        /\ days_remaining[m] = Days(1000)
        /\ published[m].k = "state"
        /\ published[m].is_low_stock

\* C13: for a medication whose dailyConsumptionRate is 0, an estimator
\* exists, and once it has observed a valid ledger quantity it reports the
\* large finite sentinel as daysRemaining (not unknown, no error).
C13_ZeroRateReportsSentinel ==
    \A m \in Meds :
        config[m].daily_consumption = 0
        => /\ sensorLife[m] # "skipped"
           /\ raised = FALSE
           /\ hassState[m].k = "num" /\ Linked(m)
                  => days_remaining[m] = Days(InfiniteDays)

\* C14: take_dose and add_stock take their target from one identifier or
\* from the first element of a list; a call whose identifier is missing, is
\* an empty list, or does not resolve to a ledger with an available numeric
\* state is reported as an error inside the handler (nothing escapes it),
\* changes no ledger's currentQuantity and publishes nothing.
C14_BadTargetReportedInside ==
    [][ LET r == returned'
        IN  /\ ( /\ r.svc \in HandlerServices
                 /\ r.arg = "list"
                 /\ r.outcome \notin {"set", "refused"} )
               => r.target \in Meds
            /\ ( /\ r.svc \in HandlerServices
                 /\ r.outcome \notin {"set", "refused"}
                 /\ \/ r.arg \in {"missing", "empty_list"}
                    \/ r.target \notin Meds
                    \/ hassState[r.target].k # "num" )
               => /\ logged' = "error"
                  /\ raised' = FALSE
                  /\ current_stock' = current_stock
                  /\ hassState' = hassState
                  /\ notified' = {} /\ sensorWrote' = {} ]_vars

\* The dosage in force for medication m: what the options form was last
\* submitted with, or the wizard's values if it never was.
LatestDosage(m) == IF options[m] # NoOptions THEN options[m] ELSE config[m]

\* C15: after the wizard's completion and any number of options edits of
\* doseSize / dosesPerDay, the dailyConsumptionRate the ledger and the
\* estimator use (entry.data's daily_consumption, read at construction)
\* equals doseSize * dosesPerDay of the latest values.
C15_RateFollowsLatestDosage ==
    \A m \in Meds :
        config[m].daily_consumption =
            LatestDosage(m).pills_per_dose * LatestDosage(m).doses_per_day

\* The step completes a call that targets ledger a, or suspends one.
Targets(a) ==
    \/ /\ returned'.svc \in HandlerServices \cup {"set_quantity"}
       /\ returned'.target = a
    \/ \E h \in Handlers :
           /\ calls[h].pc = "free"
           /\ calls'[h].pc = "awaiting" /\ calls'[h].target = a

\* C16: any invocation of take_dose, add_stock or SetQuantity that targets
\* ledger A, whether it succeeds or fails, leaves the currentQuantity of
\* every other medication's ledger and the daysRemaining of every other
\* medication's estimator unchanged (as well as what they publish).
C16_OtherMedicationsUntouched ==
    [][ \A a \in Meds :
          Targets(a)
          => \A b \in Meds \ {a} :
                 /\ current_stock'[b] = current_stock[b]
                 /\ hassState'[b] = hassState[b]
                 /\ days_remaining'[b] = days_remaining[b]
                 /\ sensor_stock'[b] = sensor_stock[b]
                 /\ published'[b] = published[b]
                 /\ b \notin notified' \cup sensorWrote' ]_vars

\* A take_dose addressed to the list [a, b] has changed ledger a and its
\* estimator while b's ledger and Linked estimator hold their own values.
C16_Witness ==
    \E a \in Meds : \E b \in Meds \ {a} :
        /\ returned.svc = SERVICE_TAKE_DOSE
        /\ returned.target = a
        /\ returned.outcome = "set"
        /\ a \in notified /\ a \in sensorWrote
        /\ Linked(b)
        /\ sensor_stock[b] = Stock(current_stock[b])
        /\ current_stock[b] = config[b].initial_stock

\* C17: every record a completed wizard run created has doseSize > 0 and
\* dosesPerDay > 0, carries lowStockThresholdDays, and stores
\* dailyConsumptionRate = doseSize * dosesPerDay; a run with a zero or
\* negative dosage does not complete.
C17_RecordsHavePositiveDosage ==
    \A e \in entries :
        /\ e.pills_per_dose > 0
        /\ e.doses_per_day > 0
        /\ "low_stock_days" \in DOMAIN e
        /\ e.daily_consumption = e.pills_per_dose * e.doses_per_day

\* The estimator of m is in use and Linked.
LiveLinked(m) == sensorLife[m] = "added" /\ Linked(m)

\* The estimator of m holds the ledger's stock and the estimate for it.
InSync(m) ==
    /\ sensor_stock[m] = Stock(current_stock[m])
    /\ days_remaining[m] =
           Days(DaysFrom(current_stock[m], config[m].daily_consumption))
    /\ published[m].k = "state"
    /\ published[m].native_value = days_remaining[m]

\* C18: while an estimator is Linked, every ledger operation that changes
\* currentQuantity (SetQuantity, take_dose, add_stock, restore) publishes a
\* notification, and once it is delivered (within the same step) the
\* estimator's lastObservedQuantity equals the ledger's currentQuantity and
\* daysRemaining has been recomputed and republished; a Linked estimator of
\* a published ledger is never stale.
C18_LinkedEstimatorFollowsLedger ==
    /\ [](\A m \in Meds : LiveLinked(m) /\ numLife[m] = "added" => InSync(m))
    /\ [][ \A m \in Meds :
             ( /\ LiveLinked(m) /\ LiveLinked(m)'
               /\ numLife'[m] = "added"
               /\ \/ current_stock'[m] # current_stock[m]
                  \/ numLife[m] = "registered" )
             => /\ m \in notified' /\ m \in sensorWrote'
                /\ InSync(m)' ]_vars

\* A take_dose has changed the stock of a ledger and the Linked estimator
\* holds the new value.
C18_Witness ==
    \E m \in Meds :
        /\ LiveLinked(m)
        /\ returned.svc = SERVICE_TAKE_DOSE
        /\ returned.outcome = "set"
        /\ m \in sensorWrote
        /\ current_stock[m] # config[m].initial_stock
        /\ InSync(m)

\* days is the estimate for stock (half tablets) at rate daily: unknown for
\* an unknown stock, the rounded quotient for a positive rate, the sentinel
\* otherwise.
EstimateOf(days, stock, daily) ==
    /\ days.known <=> stock.known
    /\ days.known =>
           IF daily > 0 THEN NearestHundredth(days.v, stock.v, daily)
           ELSE days.v = InfiniteDays

\* C19: in every reachable estimator state daysRemaining is determined by
\* (lastObservedQuantity, dailyConsumptionRate): unknown exactly when
\* lastObservedQuantity is unknown (never observed, or the last observed
\* ledger state was not a number), otherwise the value computed from the
\* two; and a step that changes either field is an observation that sets
\* both (or the construction that clears both).
C19_DaysDeterminedByObservation ==
    /\ [](\A m \in Meds :
            EstimateOf(days_remaining[m], sensor_stock[m],
                       config[m].daily_consumption))
    /\ [][ \A m \in Meds :
             ( \/ days_remaining'[m] # days_remaining[m]
               \/ sensor_stock'[m] # sensor_stock[m] )
             => \/ /\ m \in sensorWrote'
                   /\ sensor_stock'[m].known <=> hassState'[m].k = "num"
                   /\ sensor_stock'[m].known
                          => sensor_stock'[m].v = hassState'[m].v
                \/ /\ sensorLife'[m] = "new"
                   /\ ~days_remaining'[m].known
                   /\ ~sensor_stock'[m].known ]_vars

\* A Linked estimator that held an estimate has observed its ledger become
\* unavailable and holds neither a quantity nor an estimate.
C19_Witness ==
    \E m \in Meds :
        /\ LiveLinked(m)
        /\ hassState[m] = Unavailable
        /\ m \in sensorWrote
        /\ ~sensor_stock[m].known
        /\ ~days_remaining[m].known

\* C20 as stated: SetQuantity(v) with any numeric v is a direct override:
\* afterwards currentQuantity equals v exactly (no clamping, no rounding or
\* truncation of a fractional v) and a new-value notification is published.
C20_SetQuantityStoresValue ==
    (returned.svc = "set_quantity" /\ returned.arg = "num")
    => /\ current_stock[returned.target] = returned.amount
       /\ returned.target \in notified

\* C20 amended: the ledger's setter called with a numeric v stores int(v),
\* v truncated toward zero to a whole number, without clamping it to the
\* declared range; a new-value notification is published exactly when
\* int(v) differs from the quantity held before, and nothing is written
\* when it is equal.
C20_SetQuantityStoresWholeValue ==
    [][ LET r == returned'
            t == r.target
        IN  (r.svc = "set_quantity" /\ r.arg = "num")
            => /\ current_stock'[t] = IntOf(r.amount)
               /\ raised' = FALSE
               /\ t \in notified' <=> IntOf(r.amount) # current_stock[t]
               /\ t \in notified'
                      => hassState'[t] = NumState(IntOf(r.amount))
               /\ t \notin notified' => hassState'[t] = hassState[t] ]_vars

\* The setter called with -1 has stored -1 and published it.
C20_Witness ==
    /\ returned.svc = "set_quantity"
    /\ returned.amount = 0 - 2
    /\ current_stock[returned.target] = 0 - 2
    /\ hassState[returned.target] = NumState(0 - 2)
    /\ returned.target \in notified

\* The estimator of m holds exactly what its stored handle stands for: no
\* handle, nothing; a timer handle, one pending retry and no subscription;
\* a subscription handle, one subscription and no pending retry.
HandleOwnsResource(m) ==
    /\ remove_listener[m] = "None" => timers[m] = 0 /\ subs[m] = 0
    /\ remove_listener[m] = "timer" => timers[m] = 1 /\ subs[m] = 0
    /\ remove_listener[m] = "sub" => timers[m] = 0 /\ subs[m] = 1

\* C21: at every moment of an estimator's life it owns at most one live
\* resource and its stored handle refers to it: Unlinked, at most one
\* pending retry timer and no subscription; Linked, exactly one
\* subscription and no pending retry timer.  Once Linked it schedules no
\* retry, does not subscribe again and does not return to Unlinked.
C21_OneOwnedResource ==
    /\ [](\A m \in Meds :
            sensorLife[m] \in {"new", "added"}
            => /\ timers[m] + subs[m] <= 1
               /\ HandleOwnsResource(m))
    /\ [][ \A m \in Meds :
             (LiveLinked(m) /\ sensorLife'[m] = "added")
             => /\ Linked(m)'
                /\ timers'[m] = 0
                /\ subs'[m] = 1 ]_vars

\* An estimator that linked after a failed resolution holds one
\* subscription and no timer while its ledger is set to a new value.
C21_Witness ==
    \E m \in Meds :
        /\ retried[m]
        /\ LiveLinked(m)
        /\ subs[m] = 1 /\ timers[m] = 0
        /\ returned.svc = "set_quantity"
        /\ returned.outcome = "set"
        /\ m \in sensorWrote

\* C22: wizard runs are isolated from each other.  However the steps of two
\* runs interleave or follow each other, the record a completed run created
\* holds only the values entered in that run plus the defaults, and no step
\* of any run changes the record another run has already created.
C22_RunsAreIsolated ==
    /\ [](\A f \in Flows :
             step[f] = "done" => created[f] = CompletedData(entered[f]))
    /\ [][ \A f \in Flows : step[f] = "done" => created'[f] = created[f] ]_vars

=========================================================================
